---- MODULE Spec2Model ----
(***************************************************************************)
(* Server key resolution of dendrite: the Key Ring implementation          *)
(* (serverkeyapi/internal/api.go, ServerKeyAPI) and the client-side cache  *)
(* facade in front of a remote Key Ring (serverkeyapi/inthttp/client.go,   *)
(* httpServerKeyInternalAPI).                                              *)
(*                                                                         *)
(* A batch is a Go map, modelled as a function whose domain is a subset of *)
(* Keys.  Every call of the API is one action, which leaves in the         *)
(* variable call what the call saw, did and hands back; Return is the      *)
(* caller taking the outcome, after which the next call can start.         *)
(* Time is counted in abstract units.                                      *)
(***************************************************************************)
EXTENDS Integers, Sequences, FiniteSets, TLC

\* ------------------------------------------------------------- bounds ----
\* The clock runs over 0..MaxTime.
MaxTime == 1

\* The lookup identifiers (PublicKeyLookupRequest) of the model.
Keys == {"K1", "K2"}

\* Key material (PublicKeyLookupResult.VerifyKey).
VerifyKeys == {"pkA", "pkB"}

\* The configured fetchers, in configured order (KeyRing.KeyFetchers).
KeyFetchers == <<"A", "B">>

Times == 0..MaxTime

\* gomatrixserverlib.PublicKeyNotExpired, the sentinel of ExpiredTS.
PublicKeyNotExpired == 0

\* ExpiredTS is the sentinel or an explicit timestamp.
ExpiredStamps == {PublicKeyNotExpired, 1}

\* PublicKeyLookupResult
Results == [VerifyKey : VerifyKeys, ValidUntilTS : Times, ExpiredTS : ExpiredStamps]

\* What a Fetcher or the remote Key Ring hands out: newly resolved results,
\* valid to the end of the clock and not expired.
FreshResults ==
    {r \in Results : /\ r.VerifyKey = "pkB"
                     /\ r.ValidUntilTS = MaxTime
                     /\ r.ExpiredTS = PublicKeyNotExpired}

\* The valid-at timestamps callers ask for.
RequestTimes == {0, MaxTime}

\* ------------------------------------------------------------ batches ----
EmptyBatch == [k \in {} |-> PublicKeyNotExpired]

\* All maps from a subset of Keys to V.
Batches(V) == UNION {[S -> V] : S \in SUBSET Keys}

\* results[req] = res for every entry of b (b wins), as the Go loops do.
Merge(a, b) == [k \in (DOMAIN a) \cup (DOMAIN b) |-> IF k \in DOMAIN b THEN b[k] ELSE a[k]]

\* delete(m, req) for every req in S.
Remove(m, S) == [k \in (DOMAIN m) \ S |-> m[k]]

Restrict(m, S) == [k \in (DOMAIN m) \cap S |-> m[k]]

\* ---------------------------------------------------------- contexts ----
\* A context is modelled by whether it is cancelled.  context.Background()
\* is never cancelled.
Background == FALSE

VARIABLES
    impl,         \* which ServerKeyInternalAPI was constructed
    KeyDatabase,  \* OurKeyRing.KeyDatabase: the Store, identifier -> result
    cache,        \* httpServerKeyInternalAPI.cache
    now,          \* time.Now()
    call,         \* the call that is returning: what it saw, did and hands back
    builder,      \* the gomatrixserverlib.EventBuilder handed to BuildEvent
    build         \* the last call of BuildEvent / AddPrevEventsToEvent

vars == <<impl, KeyDatabase, cache, now, call, builder, build>>

\* The variables of the event builder.
eventVars == <<builder, build>>

\* The variables of the key resolution.
keyVars == <<impl, KeyDatabase, cache, now, call>>

\* ------------------------------------------------- the Store (database) ----
\* KeyDatabase.FetchKeys: the held entries of the requested identifiers.
DBFetchKeys(db, requests) == Restrict(db, DOMAIN requests)

\* KeyDatabase.StoreKeys: upsert by identifier.
DBStoreKeys(db, results) == Merge(db, results)

\* A database call fails when its context is cancelled or the database does.
DBFails(ctx, fails) == ctx \/ fails

\* --------------------------------------------------- record of a call ----
NoCall ==
    [op |-> "none", cancelled |-> FALSE, ctx |-> FALSE,
     requests |-> EmptyBatch, given |-> EmptyBatch, before |-> EmptyBatch,
     readErr |-> FALSE, found |-> EmptyBatch, served |-> EmptyBatch,
     log |-> <<>>, out |-> EmptyBatch, outNil |-> FALSE, err |-> "nil",
     count |-> 0, requestsAfter |-> EmptyBatch, storeErr |-> FALSE]

\* ------------------------------------------------------- ServerKeyAPI ----
\* (a StoreKeys that runs in its caller's context)
StoreKeysCallerCtx(callerCtx) == callerCtx

\* api.go:31, ctx := context.Background() in StoreKeys
StoreKeysCtx(callerCtx) == Background

\* api.go:42, ctx := context.Background() in FetchKeys
FetchKeysCtx(callerCtx) == Background

\* (a test that is off by one: >= for >)
StaleAtValidUntil(res, t) == t >= res.ValidUntilTS /\ res.ExpiredTS = PublicKeyNotExpired

\* (a test that forgets the expiry marker)
StaleByValidUntil(res, t) == t > res.ValidUntilTS

\* api.go:52, the test that skips a database result
Stale(res, t) == t > res.ValidUntilTS /\ res.ExpiredTS = PublicKeyNotExpired

\* (a lookup whose results are used whatever its error)
DatabaseResultsDespiteError(readErr, dbResults) == dbResults

\* api.go:48, err == nil: the results of the lookup are used
DatabaseResults(readErr, dbResults) == IF readErr THEN EmptyBatch ELSE dbResults

\* api.go:51-57, the database results that go into results
FromDatabase(dbResults, t) ==
    Restrict(dbResults, {req \in DOMAIN dbResults : ~Stale(dbResults[req], t)})

\* (a loop over the database results that forgets delete(requests, req))
AfterDatabaseNotDeleted(requests, served) == requests

\* api.go:56, the requests left after the database results are taken
AfterDatabase(requests, served) == Remove(requests, DOMAIN served)

\* (a loop that forgets delete(requests, req))
OutstandingNotDeleted(requests, fetcherResults) == requests

\* api.go:69-72, the requests left after a fetcher's results are taken
Outstanding(requests, fetcherResults) == Remove(requests, DOMAIN fetcherResults)

\* (a loop without the break at len(requests) == 0)
LoopDoneNoBreak(i, requests) == i > Len(KeyFetchers)

\* api.go:62-65, the loop over the fetchers ends: no fetcher is left, or
\* nothing is outstanding
LoopDone(i, requests) == i > Len(KeyFetchers) \/ Cardinality(DOMAIN requests) = 0

\* (a count of what was fetched instead of what was not)
FetchErrorCountResults(requests, results) == Cardinality(DOMAIN results)

\* api.go:79-80, the N of "failed to fetch N keys"
FetchErrorCount(requests, results) == Cardinality(DOMAIN requests)

\* What one Fetcher call, and the database write after it, may do. A
\* Fetcher that returns an error may return results with it.
FetcherResponses ==
    {[err |-> TRUE, results |-> m, storeFails |-> FALSE] : m \in Batches(FreshResults)}
    \cup {[err |-> FALSE, results |-> m, storeFails |-> f] :
             m \in Batches(FreshResults), f \in BOOLEAN}

\* (a loop that takes a fetcher's results whatever its error)
FetcherSucceededAlways(err) == TRUE

\* api.go:66, err == nil: the fetcher's results are taken
FetcherSucceeded(err) == ~err

\* (a loop that leaves the fetcher's results unwritten)
PersistNothing(db, fetcherResults) == db

\* api.go:73, KeyDatabase.StoreKeys(ctx, fetcherResults) after the fetcher
Persist(db, fetcherResults) == DBStoreKeys(db, fetcherResults)

\* (a failed write that is reported as keys that were not fetched)
FetchKeysErrorSoft(storeErr, requests) ==
    IF Cardinality(DOMAIN requests) > 0 THEN "fetch" ELSE "nil"

\* api.go:73-83, the error FetchKeys returns
FetchKeysError(storeErr, requests) ==
    IF storeErr THEN "store"
    ELSE IF Cardinality(DOMAIN requests) > 0 THEN "fetch" ELSE "nil"

\* api.go:33, the error StoreKeys returns
StoreKeysError(dbErr) == IF dbErr THEN "store" ELSE "nil"

\* api.go:62-77, the loop over the fetchers from fetcher i on; the set of
\* the states in which the loop can end.
RECURSIVE Waterfall(_, _, _, _, _, _)
Waterfall(i, ctx, requests, results, db, log) ==
    IF LoopDone(i, requests)
    THEN {[requests |-> requests, results |-> results, db |-> db, log |-> log,
           storeErr |-> FALSE]}
    ELSE UNION {
        LET taken == FetcherSucceeded(r.err)
            entry == [fetcher |-> KeyFetchers[i], requests |-> requests,
                      err |-> r.err, results |-> r.results,
                      storeErr |-> taken /\ DBFails(ctx, r.storeFails),
                      db |-> db]
            results2 == Merge(results, r.results)
            requests2 == Outstanding(requests, r.results)
        IN  IF ~taken
            THEN Waterfall(i + 1, ctx, requests, results, db, Append(log, entry))
            ELSE IF entry.storeErr
            THEN {[requests |-> requests2, results |-> results2, db |-> db,
                   log |-> Append(log, entry), storeErr |-> TRUE]}
            ELSE Waterfall(i + 1, ctx, requests2, results2,
                           Persist(db, r.results), Append(log, entry))
        : r \in FetcherResponses}

\* api.go:25-34
ServerKeyAPI_StoreKeys ==
    /\ impl = "ServerKeyAPI"
    /\ call.op = "none"
    /\ \E results \in Batches(Results), callerCtx \in BOOLEAN, fails \in BOOLEAN :
        LET ctx == StoreKeysCtx(callerCtx)
            err == DBFails(ctx, fails)
        IN  /\ KeyDatabase' = IF err THEN KeyDatabase ELSE DBStoreKeys(KeyDatabase, results)
            /\ call' = [NoCall EXCEPT !.op = "StoreKeys",
                           !.cancelled = callerCtx, !.ctx = ctx, !.given = results,
                           !.before = KeyDatabase, !.storeErr = err,
                           !.err = StoreKeysError(err)]
    /\ UNCHANGED <<impl, cache, now>>
    /\ UNCHANGED eventVars

\* api.go:36-84
ServerKeyAPI_FetchKeys ==
    /\ impl = "ServerKeyAPI"
    /\ call.op = "none"
    /\ \E requests \in Batches(RequestTimes), callerCtx \in BOOLEAN, readFails \in BOOLEAN :
        LET ctx == FetchKeysCtx(callerCtx)
            readErr == DBFails(ctx, readFails)
            dbResults == DatabaseResults(readErr, DBFetchKeys(KeyDatabase, requests))
            served == FromDatabase(dbResults, now)
        IN  \E w \in Waterfall(1, ctx, AfterDatabase(requests, served), served,
                               KeyDatabase, <<>>) :
            /\ KeyDatabase' = w.db
            /\ call' = [NoCall EXCEPT !.op = "FetchKeys",
                           !.cancelled = callerCtx, !.ctx = ctx,
                           !.requests = requests, !.before = KeyDatabase,
                           !.readErr = readErr, !.found = dbResults,
                           !.served = served, !.log = w.log,
                           !.out = IF w.storeErr THEN EmptyBatch ELSE w.results,
                           !.outNil = w.storeErr,
                           !.storeErr = w.storeErr,
                           !.err = FetchKeysError(w.storeErr, w.requests),
                           !.count = IF w.storeErr THEN 0
                                     ELSE FetchErrorCount(w.requests, w.results),
                           !.requestsAfter = w.requests]
    /\ UNCHANGED <<impl, cache, now>>
    /\ UNCHANGED eventVars

\* ------------------------------------------- httpServerKeyInternalAPI ----
\* caching.ServerKeyCache.GetServerKey: the entries held for the requests.
GetServerKeys(c, requests) == Restrict(c, DOMAIN requests)

\* caching.ServerKeyCache.StoreServerKey for every entry of results.
StoreServerKeys(c, results) == Merge(c, results)

\* A remote call (PostJSON) fails when its context is cancelled or the
\* transport or the remote side does.
RemoteFails(ctx, fails) == ctx \/ fails

\* client.go:67, ctx := context.Background() in StoreKeys
ClientStoreKeysCtx(callerCtx) == Background

\* client.go:85, ctx := context.Background() in FetchKeys
ClientFetchKeysCtx(callerCtx) == Background

\* client.go:96, the test that skips a cached result
CacheStale(res, t) == t > res.ValidUntilTS /\ res.ExpiredTS = PublicKeyNotExpired

\* client.go:94-103, the cached results that go into result
FromCache(c, requests, t) ==
    LET cached == GetServerKeys(c, requests)
    IN  Restrict(cached, {req \in DOMAIN cached : ~CacheStale(cached[req], t)})

\* (a loop that forwards every request, cached or not)
RemoteRequestsAll(c, requests, t) == requests

\* client.go:94-103, request.Requests: line 102 is reached only by the
\* requests that GetServerKey does not find.
RemoteRequests(c, requests, t) ==
    Restrict(requests, {req \in DOMAIN requests : req \notin DOMAIN c})

\* (a merge in which the cached result wins over the remote one)
MergeResponseCacheWins(result, response) == Merge(response, result)

\* client.go:108-111, the response merged into result
MergeResponse(result, response) == Merge(result, response)

\* client.go:108-111, the response written to the cache
CacheResponse(c, response) == StoreServerKeys(c, response)

\* (a cache that is replaced by the given results)
CacheGivenOnly(c, results) == results

\* client.go:72-75, the cache after the loop over the given results
CacheGiven(c, results) == StoreServerKeys(c, results)

\* (a request that is sent without the given results)
InputKeysEmpty(results) == EmptyBatch

\* client.go:72-73, request.Keys
InputKeys(results) == results

\* (a query whose error is not looked at)
QueryFailedNever(err) == FALSE

\* client.go:105, err != nil after QueryPublicKeys
QueryFailed(err) == err

\* client.go:61-77
Client_StoreKeys ==
    /\ impl = "httpServerKeyInternalAPI"
    /\ call.op = "none"
    /\ \E results \in Batches(Results), callerCtx \in BOOLEAN, fails \in BOOLEAN :
        LET ctx == ClientStoreKeysCtx(callerCtx)
            err == RemoteFails(ctx, fails)
        IN  /\ cache' = CacheGiven(cache, results)
            /\ call' = [NoCall EXCEPT !.op = "StoreKeys",
                           !.cancelled = callerCtx, !.ctx = ctx, !.given = results,
                           !.before = cache,
                           !.log = <<[fetcher |-> "InputPublicKeys",
                                      requests |-> InputKeys(results), err |-> err,
                                      results |-> EmptyBatch, storeErr |-> FALSE,
                                      db |-> EmptyBatch]>>,
                           !.err = IF err THEN "remote" ELSE "nil"]
    /\ UNCHANGED <<impl, KeyDatabase, now>>
    /\ UNCHANGED eventVars

\* client.go:79-113
Client_FetchKeys ==
    /\ impl = "httpServerKeyInternalAPI"
    /\ call.op = "none"
    /\ \E requests \in Batches(RequestTimes), callerCtx \in BOOLEAN,
          fails \in BOOLEAN, response \in Batches(FreshResults) :
        LET ctx == ClientFetchKeysCtx(callerCtx)
            result == FromCache(cache, requests, now)
            sent == RemoteRequests(cache, requests, now)
            err == RemoteFails(ctx, fails)
            failed == QueryFailed(err)
        IN  /\ cache' = IF failed THEN cache ELSE CacheResponse(cache, response)
            /\ call' = [NoCall EXCEPT !.op = "FetchKeys",
                           !.cancelled = callerCtx, !.ctx = ctx,
                           !.requests = requests, !.before = cache,
                           !.found = GetServerKeys(cache, requests),
                           !.served = result,
                           !.log = <<[fetcher |-> "QueryPublicKeys",
                                      requests |-> sent, err |-> err,
                                      results |-> response, storeErr |-> FALSE,
                                      db |-> EmptyBatch]>>,
                           !.out = IF failed THEN EmptyBatch
                                   ELSE MergeResponse(result, response),
                           !.outNil = failed,
                           !.err = IF failed THEN "remote" ELSE "nil",
                           !.requestsAfter = requests]
    /\ UNCHANGED <<impl, KeyDatabase, now>>
    /\ UNCHANGED eventVars

\* time.Now() advances.
Tick ==
    /\ call.op = "none"
    /\ now < MaxTime
    /\ now' = now + 1
    /\ UNCHANGED <<impl, KeyDatabase, cache, call>>
    /\ UNCHANGED eventVars

\* The call returns to its caller.
Return ==
    /\ call.op # "none"
    /\ call' = NoCall
    /\ UNCHANGED <<impl, KeyDatabase, cache, now>>
    /\ UNCHANGED eventVars

\* ------------------------------------ BuildEvent, AddPrevEventsToEvent ----
\* The depths a room reports run over 0..MaxDepth.
MaxDepth == 1

\* part_001:143, the cap on auth_events
AuthEventsLimit == 10

\* part_001:146, the cap on prev_events
PrevEventsLimit == 20

\* n event references (gomatrixserverlib.EventReference)
Refs(n) == [i \in 1..n |-> [EventID |-> i, EventSHA256 |-> i]]

\* The numbers of references a room hands over: none, the cap, one more.
AuthCounts == {0, AuthEventsLimit, AuthEventsLimit + 1}
PrevCounts == {0, PrevEventsLimit, PrevEventsLimit + 1}

\* queryRes.RoomVersion: a version of the hash-reference format, one of the
\* event-ID format, one that is not known.
RoomVersions == {"1", "3", "unknown"}

\* gomatrixserverlib.RoomVersion.EventFormat
EventFormat(v) ==
    IF v = "1" THEN "EventFormatV1" ELSE IF v = "3" THEN "EventFormatV2" ELSE "error"

\* What the collaborators of one call do: StateNeededForEventBuilder, the
\* roomserver query and its response, AddEvent, AuthEventReferences, Build.
\* A call reads nothing of what comes after the step it ends at, so an input
\* varies only in the calls that read it: those that end at or before the
\* test of RoomExists, at EventFormat, at AddEvent, at AuthEventReferences,
\* and those that fill the builder.
BuildInputs ==
    [stateErr : BOOLEAN, tuples : {0, 1}, queryErr : BOOLEAN, RoomExists : BOOLEAN,
     RoomVersion : {"unknown"}, Depth : {0}, addEventErr : {FALSE},
     refsErr : {FALSE}, auth : {0}, prev : {0}, buildErr : {FALSE}]
    \cup
    [stateErr : {FALSE}, tuples : {1}, queryErr : {FALSE}, RoomExists : {TRUE},
     RoomVersion : RoomVersions, Depth : 0..MaxDepth, addEventErr : {TRUE},
     refsErr : {FALSE}, auth : {0}, prev : {0}, buildErr : {FALSE}]
    \cup
    [stateErr : {FALSE}, tuples : {1}, queryErr : {FALSE}, RoomExists : {TRUE},
     RoomVersion : RoomVersions, Depth : 0..MaxDepth, addEventErr : {FALSE},
     refsErr : {TRUE}, auth : {0}, prev : {0}, buildErr : {FALSE}]
    \cup
    [stateErr : {FALSE}, tuples : {1}, queryErr : {FALSE}, RoomExists : {TRUE},
     RoomVersion : RoomVersions, Depth : 0..MaxDepth, addEventErr : {FALSE},
     refsErr : {FALSE}, auth : AuthCounts, prev : PrevCounts, buildErr : BOOLEAN]

\* gomatrixserverlib.EventBuilder, the fields AddPrevEventsToEvent sets
NewBuilder == [Depth |-> 0, AuthEvents |-> <<>>, PrevEvents |-> <<>>]

NoBuild ==
    [op |-> "none", err |-> "nil", queried |-> FALSE, queryErr |-> FALSE,
     RoomExists |-> FALSE, before |-> NewBuilder, eventNil |-> TRUE]

\* part_001:139-150
truncateAuthAndPrevEvents(auth, prev) ==
    [truncAuth |-> IF Len(auth) > AuthEventsLimit
                   THEN SubSeq(auth, 1, AuthEventsLimit) ELSE auth,
     truncPrev |-> IF Len(prev) > PrevEventsLimit
                   THEN SubSeq(prev, 1, PrevEventsLimit) ELSE prev]

\* part_001:115-129, the references in the encoding of the event format
EncodeRefs(eventFormat, refs) ==
    IF eventFormat = "EventFormatV1" THEN refs
    ELSE [i \in 1..Len(refs) |-> refs[i].EventID]

\* (a test of RoomExists that comes before the test of the query's error)
RoomStateErrorExistsFirst(queryErr, roomExists) ==
    IF ~roomExists THEN "ErrRoomNoExists"
    ELSE IF queryErr THEN "rsAPI.QueryLatestEventsAndState" ELSE "nil"

\* part_001:85-91, the error after the roomserver query
RoomStateError(queryErr, roomExists) ==
    IF queryErr THEN "rsAPI.QueryLatestEventsAndState"
    ELSE IF ~roomExists THEN "ErrRoomNoExists" ELSE "nil"

\* part_001:66-132, the builder and the error AddPrevEventsToEvent ends with
AddPrevEvents(b, in) ==
    IF in.stateErr
    THEN [builder |-> b, err |-> "gomatrixserverlib.StateNeededForEventBuilder",
          queried |-> FALSE]
    ELSE IF in.tuples = 0
    THEN [builder |-> b, err |-> "expecting state tuples", queried |-> FALSE]
    ELSE IF RoomStateError(in.queryErr, in.RoomExists) # "nil"
    THEN [builder |-> b, err |-> RoomStateError(in.queryErr, in.RoomExists),
          queried |-> TRUE]
    ELSE IF EventFormat(in.RoomVersion) = "error"
    THEN [builder |-> b, err |-> "queryRes.RoomVersion.EventFormat", queried |-> TRUE]
    ELSE LET b1 == [b EXCEPT !.Depth = in.Depth]
             t == truncateAuthAndPrevEvents(Refs(in.auth), Refs(in.prev))
             f == EventFormat(in.RoomVersion)
         IN  IF in.addEventErr
             THEN [builder |-> b1, err |-> "authEvents.AddEvent", queried |-> TRUE]
             ELSE IF in.refsErr
             THEN [builder |-> b1, err |-> "eventsNeeded.AuthEventReferences",
                   queried |-> TRUE]
             ELSE [builder |-> [b1 EXCEPT !.AuthEvents = EncodeRefs(f, t.truncAuth),
                                          !.PrevEvents = EncodeRefs(f, t.truncPrev)],
                   err |-> "nil", queried |-> TRUE]

\* part_001:66-132
AddPrevEventsToEvent ==
    \E in \in BuildInputs :
        LET r == AddPrevEvents(builder, in)
        IN  /\ builder' = r.builder
            /\ build' = [op |-> "AddPrevEventsToEvent", err |-> r.err,
                         queried |-> r.queried, queryErr |-> in.queryErr,
                         RoomExists |-> in.RoomExists, before |-> builder,
                         eventNil |-> TRUE]
            /\ UNCHANGED keyVars

\* part_001:39-63
BuildEvent ==
    \E in \in BuildInputs :
        LET r == AddPrevEvents(builder, in)
            err == IF r.err # "nil" THEN r.err
                   ELSE IF in.buildErr THEN "builder.Build" ELSE "nil"
        IN  /\ builder' = r.builder
            /\ build' = [op |-> "BuildEvent", err |-> err,
                         queried |-> r.queried, queryErr |-> in.queryErr,
                         RoomExists |-> in.RoomExists, before |-> builder,
                         eventNil |-> err # "nil"]
            /\ UNCHANGED keyVars

\* A caller starts on a new event builder.
NewEventBuilder ==
    /\ builder' = NewBuilder
    /\ build' = NoBuild
    /\ UNCHANGED keyVars

Init ==
    /\ builder = NewBuilder
    /\ build = NoBuild
    /\ impl \in {"ServerKeyAPI", "httpServerKeyInternalAPI"}
    /\ KeyDatabase = EmptyBatch
    /\ cache = EmptyBatch
    /\ now = 0
    /\ call = NoCall

Next ==
    \/ ServerKeyAPI_StoreKeys
    \/ ServerKeyAPI_FetchKeys
    \/ Client_StoreKeys
    \/ Client_FetchKeys
    \/ Tick
    \/ Return

Spec == Init /\ [][Next]_vars

NextEvents == AddPrevEventsToEvent \/ BuildEvent \/ NewEventBuilder

\* The event builder alone.
SpecEvents == Init /\ [][NextEvents]_vars

\* ================================================================ claims ====
KeyRingFetch == impl = "ServerKeyAPI" /\ call.op = "FetchKeys"
KeyRingStore == impl = "ServerKeyAPI" /\ call.op = "StoreKeys"
ClientFetch == impl = "httpServerKeyInternalAPI" /\ call.op = "FetchKeys"
ClientStore == impl = "httpServerKeyInternalAPI" /\ call.op = "StoreKeys"

\* The validity invariant of the data model, as the specification words it:
\* ExpiredAt is an explicit timestamp, or the current time is not past
\* ValidUntil.
UsableAt(res, t) == res.ExpiredTS # PublicKeyNotExpired \/ t <= res.ValidUntilTS

\* The identifiers the fetcher calls before call number i resolved.
ResolvedBefore(i) ==
    UNION {DOMAIN call.log[j].results : j \in {n \in 1..(i - 1) : ~call.log[n].err}}

\* The results a call obtained for identifier k, from the Store or cache and
\* from the fetchers or the remote side.
Obtained(k) ==
    {call.found[x] : x \in {k} \cap DOMAIN call.found}
    \cup {call.log[i].results[k] :
            i \in {n \in 1..Len(call.log) :
                     ~call.log[n].err /\ k \in DOMAIN call.log[n].results}}

\* C1: in FetchKeys of the Key Ring and of the facade, a result found in the
\* Store (the cache) is taken into the output from there if and only if its
\* ExpiredAt is an explicit timestamp or now <= ValidUntil, and then unchanged.
C1_ServedIffUsable ==
    call.op = "FetchKeys" =>
        /\ DOMAIN call.served \subseteq DOMAIN call.found
        /\ \A req \in DOMAIN call.found :
            /\ (req \in DOMAIN call.served) <=> UsableAt(call.found[req], now)
            /\ req \in DOMAIN call.served => call.served[req] = call.found[req]

\* A call that found a result past ValidUntil with an expiry marker and served
\* it, and found one past ValidUntil without the marker and did not.
C1_Witness ==
    /\ call.op = "FetchKeys"
    /\ \E a, b \in DOMAIN call.found :
        /\ call.found[a].ExpiredTS # PublicKeyNotExpired
        /\ now > call.found[a].ValidUntilTS
        /\ a \in DOMAIN call.served
        /\ call.found[b].ExpiredTS = PublicKeyNotExpired
        /\ now > call.found[b].ValidUntilTS
        /\ b \notin DOMAIN call.served

C3_FetchersInOrder ==
    KeyRingFetch =>
        /\ Len(call.log) <= Len(KeyFetchers)
        /\ \A i \in 1..Len(call.log) :
            /\ call.log[i].fetcher = KeyFetchers[i]
            /\ call.log[i].requests =
                   Remove(call.requests, DOMAIN call.served \cup ResolvedBefore(i))
        /\ (/\ Len(call.log) = 2
            /\ ~call.log[1].err /\ ~call.log[2].err /\ ~call.outNil
            /\ DOMAIN call.log[1].results \subseteq DOMAIN call.log[1].requests
            /\ DOMAIN call.log[1].results # DOMAIN call.log[1].requests
            /\ DOMAIN call.log[2].results = DOMAIN call.log[2].requests)
           => /\ call.out = Merge(Merge(call.served, call.log[1].results),
                                  call.log[2].results)
              /\ call.err = "nil"
              /\ DOMAIN call.log[2].requests \cap DOMAIN call.log[1].results = {}

\* Fetcher A resolved K1 of the outstanding K1 and K2, fetcher B then K2.
C3_Witness ==
    /\ KeyRingFetch
    /\ Len(call.log) = 2
    /\ call.log[1].fetcher = "A" /\ call.log[2].fetcher = "B"
    /\ DOMAIN call.log[1].requests = {"K1", "K2"}
    /\ ~call.log[1].err /\ DOMAIN call.log[1].results = {"K1"}
    /\ ~call.log[2].err /\ DOMAIN call.log[2].results = {"K2"}
    /\ DOMAIN call.out = {"K1", "K2"}
    /\ call.err = "nil"

\* The requested identifiers a call resolved, and those it did not.
Resolved ==
    DOMAIN call.requests \cap (DOMAIN call.served \cup ResolvedBefore(Len(call.log) + 1))

Unresolved == DOMAIN call.requests \ Resolved

RemoteReportsMisses ==
    ClientFetch =>
        (~call.log[1].err =>
            DOMAIN call.log[1].requests \subseteq DOMAIN call.log[1].results)

\* C5: every entry of the returned batch was obtained, with that value, from
\* the Store or a fetcher (the cache or the remote response) in this call,
\* and a call that returns no error returns every requested identifier.
C5_NoInventionNoSilentMiss ==
    (call.op = "FetchKeys" /\ RemoteReportsMisses)
    => /\ \A k \in DOMAIN call.out : call.out[k] \in Obtained(k)
       /\ call.err = "nil" => DOMAIN call.requests \subseteq DOMAIN call.out

\* The result the fetchers last returned for identifier k.
LastFetched(k) ==
    LET is == {n \in 1..Len(call.log) :
                 ~call.log[n].err /\ k \in DOMAIN call.log[n].results}
        last == CHOOSE n \in is : \A m \in is : m <= n
    IN  call.log[last].results[k]

\* C6: the Store (working) holds k valid until T and not marked expired, and
\* FetchKeys asks for k alone.  At a time not past T the call returns k from
\* the Store, calls no fetcher and leaves the Store as it is.  At a time past
\* T it does not use the Store entry and calls the fetchers with k; when a
\* fetcher returns a result for k, the Store afterwards holds it and the call
\* returns it.
C6_StaleEntryScenario ==
    \A k \in Keys :
        (/\ KeyRingFetch
         /\ DOMAIN call.requests = {k}
         /\ ~call.readErr
         /\ call.err # "store"
         /\ k \in DOMAIN call.before
         /\ call.before[k].ExpiredTS = PublicKeyNotExpired)
        => /\ now <= call.before[k].ValidUntilTS
               => /\ call.log = <<>>
                  /\ call.out = Restrict(call.before, {k})
                  /\ call.err = "nil"
                  /\ KeyDatabase = call.before
           /\ now > call.before[k].ValidUntilTS
               => /\ k \notin DOMAIN call.served
                  /\ Len(call.log) >= 1
                  /\ call.log[1].fetcher = KeyFetchers[1]
                  /\ call.log[1].requests = call.requests
                  /\ k \in ResolvedBefore(Len(call.log) + 1)
                       => /\ KeyDatabase[k] = LastFetched(k)
                          /\ call.out[k] = LastFetched(k)
                          /\ call.err = "nil"
                  /\ k \notin ResolvedBefore(Len(call.log) + 1)
                       => /\ Len(call.log) = Len(KeyFetchers)
                          /\ k \notin DOMAIN call.out
                          /\ call.err = "fetch"

\* K1 is valid until 0 and the time is 1 (the scenario's T=100 and T=150, in
\* the units of the clock): the first fetcher is asked for K1, and its new
\* result is in the Store and in the returned batch.
C6_Witness ==
    /\ KeyRingFetch
    /\ DOMAIN call.requests = {"K1"}
    /\ "K1" \in DOMAIN call.before
    /\ call.before["K1"].ValidUntilTS = 0
    /\ call.before["K1"].ExpiredTS = PublicKeyNotExpired
    /\ now = 1
    /\ Len(call.log) = 1
    /\ ~call.log[1].err /\ "K1" \in DOMAIN call.log[1].results
    /\ KeyDatabase["K1"] = call.log[1].results["K1"]
    /\ KeyDatabase["K1"] # call.before["K1"]
    /\ call.out["K1"] = call.log[1].results["K1"]

\* C7: whatever the caller's context, cancelled or not, the Store and the
\* remote side are called under a context that is not cancelled, so that no
\* write is aborted by the caller: a StoreKeys of a cancelled caller leaves
\* its results in the Store (writes them to the cache and forwards them all),
\* and what the fetchers returned to a cancelled FetchKeys is in the Store.
C7_DetachedPersistence ==
    (call.op # "none" /\ call.cancelled)
    => /\ call.ctx = Background
       /\ (KeyRingStore /\ call.err = "nil")
              => KeyDatabase = Merge(call.before, call.given)
       /\ (KeyRingFetch /\ call.err # "store")
              => \A k \in ResolvedBefore(Len(call.log) + 1) :
                     k \in DOMAIN KeyDatabase /\ KeyDatabase[k] = LastFetched(k)
       /\ ClientStore
              => /\ cache = Merge(call.before, call.given)
                 /\ call.log[1].requests = call.given

\* StoreKeys({K2: result}) of a caller whose context is cancelled: K2, not
\* held before, is stored.
C7_Witness ==
    /\ KeyRingStore
    /\ call.cancelled
    /\ DOMAIN call.given = {"K2"}
    /\ "K2" \notin DOMAIN call.before
    /\ call.err = "nil"
    /\ "K2" \in DOMAIN KeyDatabase
    /\ KeyDatabase["K2"] = call.given["K2"]

\* C8: the batch of the remote query of a facade FetchKeys holds no
\* identifier whose cached result passes the validity invariant at the time
\* of the call.
C8_NoRemoteFetchForCached ==
    ClientFetch =>
        \A req \in DOMAIN call.log[1].requests :
            ~(req \in DOMAIN call.before /\ UsableAt(call.before[req], now))

\* K1 and K2 are requested, K1 is answered from the cache, past its
\* ValidUntil by its expiry marker, and K2 alone goes to the remote side.
C8_Witness ==
    /\ ClientFetch
    /\ DOMAIN call.requests = {"K1", "K2"}
    /\ "K1" \in DOMAIN call.before
    /\ now > call.before["K1"].ValidUntilTS
    /\ DOMAIN call.served = {"K1"}
    /\ DOMAIN call.log[1].requests = {"K2"}

\* C9: every requested identifier that the facade does not answer from its
\* cache is in the remote batch request, with its requested timestamp.
C9_MissesAreForwarded ==
    ClientFetch => call.log[1].requests = Remove(call.requests, DOMAIN call.served)

\* The Store of the Key Ring, the cache of the facade.
Held == IF impl = "ServerKeyAPI" THEN KeyDatabase ELSE cache

\* A StoreKeys that wrote: on the Key Ring one that returned no error; the
\* facade writes its cache whatever the remote call returns.
Stored == call.op = "StoreKeys" /\ (impl = "ServerKeyAPI" => call.err = "nil")

\* C10: StoreKeys leaves every identifier of the batch with the value given
\* and every other identifier with its previous entry; on a Store (cache)
\* that already holds the batch it changes nothing; and no call makes the
\* set of identifiers held smaller.
C10_UpsertNeverDeletes ==
    /\ Stored
        => /\ DOMAIN Held = DOMAIN call.before \cup DOMAIN call.given
           /\ \A k \in DOMAIN call.given : Held[k] = call.given[k]
           /\ \A k \in DOMAIN call.before \ DOMAIN call.given : Held[k] = call.before[k]
           /\ Restrict(call.before, DOMAIN call.given) = call.given => Held = call.before
    /\ call.op # "none" => DOMAIN call.before \subseteq DOMAIN Held

\* K1 and K2 are held, StoreKeys gives another value for K1 alone: K1 has
\* the new value and K2 the old one.
C10_Witness ==
    /\ Stored
    /\ DOMAIN call.before = {"K1", "K2"}
    /\ DOMAIN call.given = {"K1"}
    /\ call.given["K1"] # call.before["K1"]
    /\ Held["K1"] = call.given["K1"]
    /\ Held["K2"] = call.before["K2"]

\* C11: facade StoreKeys writes every given result into the cache and sends
\* all of them in one InputPublicKeys call; when that call fails StoreKeys
\* returns the error, and the cache holds every given result all the same.
C11_CacheWrittenWhateverRemote ==
    ClientStore =>
        /\ Len(call.log) = 1
        /\ call.log[1].fetcher = "InputPublicKeys"
        /\ call.log[1].requests = call.given
        /\ DOMAIN call.given \subseteq DOMAIN cache
        /\ \A k \in DOMAIN call.given : cache[k] = call.given[k]
        /\ (call.err = "remote") <=> call.log[1].err
        /\ (call.err = "nil") <=> ~call.log[1].err

\* The remote store call failed, StoreKeys returned its error, and K1 and K2,
\* not cached before, are in the cache as given.
C11_Witness ==
    /\ ClientStore
    /\ call.log[1].err
    /\ call.err = "remote"
    /\ call.before = EmptyBatch
    /\ DOMAIN call.given = {"K1", "K2"}
    /\ cache = call.given

\* The cached results of the requests that pass the validity invariant.
ValidHits ==
    Restrict(call.before,
             {k \in DOMAIN call.requests \cap DOMAIN call.before :
                 UsableAt(call.before[k], now)})

\* C12: when the remote query of a facade FetchKeys succeeds, every result of
\* the response is in the cache, over whatever was cached, and the returned
\* batch is the valid cache hits with the remote results merged over them.
C12_ResponseCachedAndMerged ==
    (ClientFetch /\ ~call.log[1].err)
    => /\ cache = Merge(call.before, call.log[1].results)
       /\ ~call.outNil
       /\ call.err = "nil"
       /\ call.out = Merge(ValidHits, call.log[1].results)

\* K1 is a valid cache hit and the response has another result for K1: the
\* remote one is returned and cached.
C12_Witness ==
    /\ ClientFetch
    /\ ~call.log[1].err
    /\ "K1" \in DOMAIN call.served
    /\ "K1" \in DOMAIN call.log[1].results
    /\ call.log[1].results["K1"] # call.served["K1"]
    /\ call.out["K1"] = call.log[1].results["K1"]
    /\ cache["K1"] = call.log[1].results["K1"]

\* C13: AddPrevEventsToEvent, and BuildEvent through it, returns
\* ErrRoomNoExists exactly when the roomserver query was made, succeeded and
\* reported that the room does not exist; a failed query gives another error;
\* and with either error Depth, AuthEvents and PrevEvents are as before.
C13_RoomNoExistsIsDistinct ==
    build.op # "none" =>
        /\ (build.err = "ErrRoomNoExists")
               <=> (build.queried /\ ~build.queryErr /\ ~build.RoomExists)
        /\ (build.queried /\ build.queryErr)
               => build.err = "rsAPI.QueryLatestEventsAndState"
        /\ build.err \in {"ErrRoomNoExists", "rsAPI.QueryLatestEventsAndState"}
               => builder = build.before
        /\ (build.op = "BuildEvent" /\ build.err # "nil") => build.eventNil

\* BuildEvent on a builder that an earlier call filled: the query succeeds,
\* the room does not exist, and the builder keeps what it had.
C13_Witness ==
    /\ build.op = "BuildEvent"
    /\ build.err = "ErrRoomNoExists"
    /\ build.queried /\ ~build.queryErr /\ ~build.RoomExists
    /\ build.before.Depth = 1
    /\ Len(build.before.AuthEvents) = AuthEventsLimit
    /\ builder = build.before

\* The results FetchKeys of the Key Ring has taken after i fetcher calls:
\* those served from the Store and those of the fetchers that succeeded.
RECURSIVE TakenUpTo(_)
TakenUpTo(i) ==
    IF i = 0 THEN call.served
    ELSE IF call.log[i].err THEN TakenUpTo(i - 1)
    ELSE Merge(TakenUpTo(i - 1), call.log[i].results)

\* The Store as the fetcher call after call number i finds it, or as the
\* call leaves it.
StoreAfter(i) == IF i < Len(call.log) THEN call.log[i + 1].db ELSE KeyDatabase

\* C14: a Fetcher that returns an error has fetched nothing: FetchKeys of the
\* Key Ring goes on to the next Fetcher with the same outstanding requests
\* and the same Store, takes none of what the Fetcher returned into its
\* output, and after the last Fetcher reports only the count of the keys left.
C14_FetcherErrorIsNothingFetched ==
    KeyRingFetch =>
        /\ \A i \in 1..Len(call.log) :
               call.log[i].err =>
                   /\ ~call.log[i].storeErr
                   /\ StoreAfter(i) = call.log[i].db
                   /\ IF i < Len(KeyFetchers)
                      THEN /\ i < Len(call.log)
                           /\ call.log[i + 1].fetcher = KeyFetchers[i + 1]
                           /\ call.log[i + 1].requests = call.log[i].requests
                      ELSE /\ i = Len(call.log)
                           /\ call.requestsAfter = call.log[i].requests
                           /\ call.err = "fetch"
                           /\ call.count = Cardinality(DOMAIN call.log[i].requests)
        /\ ~call.outNil => call.out = TakenUpTo(Len(call.log))

\* The first Fetcher fails and hands back a result for K1 with its error, the
\* second succeeds without K1: K1 is not in the output and not in the Store.
C14_Witness ==
    /\ KeyRingFetch
    /\ Len(call.log) = 2
    /\ call.log[1].err /\ "K1" \in DOMAIN call.log[1].results
    /\ ~call.log[2].err /\ DOMAIN call.log[2].results = {"K2"}
    /\ DOMAIN call.requests = {"K1", "K2"}
    /\ call.served = EmptyBatch
    /\ DOMAIN call.out = {"K2"}
    /\ "K1" \notin DOMAIN KeyDatabase
    /\ call.err = "fetch" /\ call.count = 1

\* C15: when the first lookup in the Store fails, FetchKeys of the Key Ring
\* takes nothing from the Store, hands every requested identifier to the
\* first Fetcher, and returns no error for the failed lookup.
C15_StoreReadFailureIsNothingFound ==
    (KeyRingFetch /\ call.readErr) =>
        /\ call.found = EmptyBatch /\ call.served = EmptyBatch
        /\ IF DOMAIN call.requests = {}
           THEN call.log = <<>> /\ call.err = "nil"
           ELSE /\ Len(call.log) >= 1
                /\ call.log[1].fetcher = KeyFetchers[1]
                /\ call.log[1].requests = call.requests
        /\ (~call.storeErr /\ DOMAIN call.requestsAfter = {})
               => (call.err = "nil" /\ ~call.outNil)
        /\ call.err = "fetch" => DOMAIN call.requestsAfter # {}

\* The Store holds a usable result for K1, the lookup fails, the first
\* Fetcher is asked for K1 and the call ends without an error.
C15_Witness ==
    /\ KeyRingFetch /\ call.readErr
    /\ "K1" \in DOMAIN call.before /\ UsableAt(call.before["K1"], now)
    /\ DOMAIN call.requests = {"K1"}
    /\ Len(call.log) = 1 /\ "K1" \in DOMAIN call.log[1].requests
    /\ call.err = "nil" /\ "K1" \in DOMAIN call.out

\* C16: in FetchKeys of the Key Ring every Fetcher call that succeeds and
\* whose write succeeds has all its results in the Store before the next
\* Fetcher is called and before the call returns, whatever comes after.
C16_PersistedImmediately ==
    KeyRingFetch =>
        /\ Len(call.log) >= 1 => call.log[1].db = call.before
        /\ \A i \in 1..Len(call.log) :
               (~call.log[i].err /\ ~call.log[i].storeErr) =>
                   /\ StoreAfter(i) = Merge(call.log[i].db, call.log[i].results)
                   /\ \A j \in i..Len(call.log) :
                          DOMAIN call.log[i].results \subseteq DOMAIN StoreAfter(j)

\* The first Fetcher hands back K1, the second fails, the call ends with the
\* error for K2: K1 is in the Store, where it was not before.
C16_Witness ==
    /\ KeyRingFetch
    /\ Len(call.log) = 2
    /\ ~call.log[1].err /\ ~call.log[1].storeErr
    /\ DOMAIN call.log[1].results = {"K1"}
    /\ call.log[2].err
    /\ call.err = "fetch"
    /\ "K1" \notin DOMAIN call.before
    /\ "K1" \in DOMAIN call.log[2].db
    /\ "K1" \in DOMAIN KeyDatabase /\ KeyDatabase["K1"] = call.log[1].results["K1"]

\* C17: FetchKeys of the Key Ring returns the store error, and not the count
\* of unfetched keys, exactly when a write of a Fetcher's results failed; that
\* Fetcher is the last one called and no batch is returned. StoreKeys of the
\* Key Ring returns the error of the Store's write.
C17_StoreWriteFailureIsHard ==
    /\ KeyRingFetch =>
           /\ (call.err = "store") <=> (\E i \in 1..Len(call.log) : call.log[i].storeErr)
           /\ (call.err = "store") <=> call.outNil
           /\ \A i \in 1..Len(call.log) :
                  call.log[i].storeErr =>
                      /\ i = Len(call.log)
                      /\ ~call.log[i].err
                      /\ call.out = EmptyBatch /\ call.count = 0
                      /\ KeyDatabase = call.log[i].db
    /\ KeyRingStore => ((call.err = "store") <=> call.storeErr)

\* K1 and K2 are requested, the first Fetcher hands back K1, the write fails:
\* the second Fetcher is not called although K2 is outstanding, and the call
\* returns the store error and no batch.
C17_Witness ==
    /\ KeyRingFetch
    /\ DOMAIN call.requests = {"K1", "K2"} /\ call.served = EmptyBatch
    /\ Len(call.log) = 1 /\ Len(call.log) < Len(KeyFetchers)
    /\ call.log[1].storeErr /\ DOMAIN call.log[1].results = {"K1"}
    /\ call.err = "store" /\ call.outNil /\ call.out = EmptyBatch
    /\ DOMAIN call.requestsAfter = {"K2"}

\* The call asks for something, and every identifier it asks for is in the
\* cache with a result that is usable at the time of the call.
AllCached ==
    /\ DOMAIN call.requests # {}
    /\ \A k \in DOMAIN call.requests :
           k \in DOMAIN call.before /\ UsableAt(call.before[k], now)

\* C18: when every identifier requested from FetchKeys of the facade is
\* satisfiable from the cache, no remote query is made and the cached results
\* are returned without an error.
C18_NoRemoteCallWhenAllCached ==
    (ClientFetch /\ AllCached) =>
        /\ call.log = <<>>
        /\ call.err = "nil" /\ ~call.outNil
        /\ call.out = Restrict(call.before, DOMAIN call.requests)

\* C19: when the remote query of FetchKeys of the facade fails, the call
\* returns the error and no batch, and the cache is as it was before the call.
C19_RemoteErrorLeavesCache ==
    (ClientFetch /\ call.log[1].err) =>
        /\ call.err = "remote"
        /\ call.outNil /\ call.out = EmptyBatch
        /\ cache = call.before

\* K1 is a usable cache hit, the failing query carries a result for K2: the
\* call returns neither, and K2 is not in the cache.
C19_Witness ==
    /\ ClientFetch /\ call.log[1].err
    /\ DOMAIN call.requests = {"K1", "K2"}
    /\ "K1" \in DOMAIN call.served
    /\ "K2" \in DOMAIN call.log[1].results
    /\ "K2" \notin DOMAIN cache
    /\ call.outNil /\ call.err = "remote"

\* C20: when FetchKeys of the Key Ring returns a batch, the request map of
\* its caller holds exactly the requested identifiers that are not in the
\* batch, with their timestamps, and nothing when there is no error;
\* FetchKeys of the facade leaves the request map as it was.
C20_RequestsConsumedInPlace ==
    /\ (KeyRingFetch /\ ~call.outNil) =>
           /\ call.requestsAfter = Remove(call.requests, DOMAIN call.out)
           /\ call.err = "nil" => call.requestsAfter = EmptyBatch
    /\ ClientFetch => call.requestsAfter = call.requests

\* K1 is served from the Store, K2 is not fetched: the request map is left
\* with K2 alone.
C20_Witness ==
    /\ KeyRingFetch /\ ~call.outNil
    /\ DOMAIN call.requests = {"K1", "K2"}
    /\ DOMAIN call.served = {"K1"}
    /\ DOMAIN call.out = {"K1"}
    /\ call.err = "fetch"
    /\ DOMAIN call.requestsAfter = {"K2"}
====
